---- MODULE Spec2Model ----
(***************************************************************************)
(* Model of the user-data backup timeline extension: the backup store      *)
(* (backup / getAllEntries / resolveContent / getCreationTime), the sync   *)
(* resolver, the change event and the timeline paging.                     *)
(*                                                                         *)
(* A JavaScript string is a sequence of one-character strings, so that     *)
(* formatting, the listing regular expression, the default sort order and  *)
(* parseInt are computed character by character.                           *)
(***************************************************************************)
EXTENDS Integers, Sequences, FiniteSets, TLC

\* ------------------------------------------------------------------ text

DigitChars == {"0", "1", "2", "3", "4", "5", "6", "7", "8", "9"}

\* The UTF-16 code unit of each character the model uses.
CharCode(c) ==
    CASE c = "\"" -> 34 [] c = "," -> 44 [] c = "-" -> 45 [] c = "." -> 46
      [] c = "0" -> 48 [] c = "1" -> 49 [] c = "2" -> 50 [] c = "3" -> 51
      [] c = "4" -> 52 [] c = "5" -> 53 [] c = "6" -> 54 [] c = "7" -> 55
      [] c = "8" -> 56 [] c = "9" -> 57 [] c = ":" -> 58
      [] c = "A" -> 65 [] c = "B" -> 66 [] c = "T" -> 84 [] c = "Z" -> 90
      [] c = "\\" -> 92 [] c = "b" -> 98
      [] c = "j" -> 106 [] c = "n" -> 110 [] c = "o" -> 111 [] c = "s" -> 115
      [] c = "x" -> 120 [] c = "{" -> 123 [] c = "}" -> 125

DigitValue(c) == CharCode(c) - 48

DigitChar(d) ==
    CASE d = 0 -> "0" [] d = 1 -> "1" [] d = 2 -> "2" [] d = 3 -> "3"
      [] d = 4 -> "4" [] d = 5 -> "5" [] d = 6 -> "6" [] d = 7 -> "7"
      [] d = 8 -> "8" [] d = 9 -> "9"

\* '' + n for an integer n >= 0: its decimal digits, no padding.
RECURSIVE NumberToString(_)
NumberToString(n) ==
    IF n < 10 THEN <<DigitChar(n)>>
    ELSE NumberToString(n \div 10) \o <<DigitChar(n % 10)>>

\* String.prototype.substring(from, to) on 0-based indices, to exclusive.
substring(s, from, to) ==
    LET a == IF from < Len(s) THEN from ELSE Len(s)
        b == IF to < Len(s) THEN to ELSE Len(s)
    IN  SubSeq(s, a + 1, b)

\* The value of a string of decimal digits.
RECURSIVE DigitsValue(_)
DigitsValue(s) ==
    IF s = <<>> THEN 0
    ELSE 10 * DigitsValue(SubSeq(s, 1, Len(s) - 1)) + DigitValue(s[Len(s)])

\* The longest prefix of s made of decimal digits.
RECURSIVE DigitPrefix(_)
DigitPrefix(s) ==
    IF s = <<>> \/ s[1] \notin DigitChars THEN <<>>
    ELSE <<s[1]>> \o DigitPrefix(Tail(s))

NaN == "NaN"

\* parseInt(s): the number its leading digits spell, NaN when there are none.
parseInt(s) ==
    IF DigitPrefix(s) = <<>> THEN NaN ELSE DigitsValue(DigitPrefix(s))

\* Comparison of two strings by code units, as Array.prototype.sort() compares.
RECURSIVE StringLess(_, _)
StringLess(a, b) ==
    IF b = <<>> THEN FALSE
    ELSE IF a = <<>> THEN TRUE
    ELSE IF a[1] # b[1] THEN CharCode(a[1]) < CharCode(b[1])
    ELSE StringLess(Tail(a), Tail(b))

\* ------------------------------------------------------------------ Date
\* A time value (milliseconds since the epoch) is kept as the pair of its day
\* number and its milliseconds within the day: day * msPerDay + ms.

msPerSecond == 1000
msPerMinute == 60 * msPerSecond
msPerHour == 60 * msPerMinute
msPerDay == 24 * msPerHour

TimeValue(day, ms) == [day |-> day + (ms \div msPerDay), ms |-> ms % msPerDay]

AddMs(t, ms) == TimeValue(t.day, t.ms + ms)

TimeLess(a, b) == a.day < b.day \/ (a.day = b.day /\ a.ms < b.ms)

TimeLeq(a, b) == a = b \/ TimeLess(a, b)

DayFromYear(y) ==
    365 * (y - 1970) + ((y - 1969) \div 4) - ((y - 1901) \div 100)
        + ((y - 1601) \div 400)

InLeapYear(y) == (y % 4 = 0 /\ y % 100 # 0) \/ y % 400 = 0

\* The day within the year on which month m (0-based) starts.
MonthStart(y, m) ==
    LET leap == IF InLeapYear(y) THEN 1 ELSE 0
    IN  CASE m = 0 -> 0 [] m = 1 -> 31 [] m = 2 -> 59 + leap
          [] m = 3 -> 90 + leap [] m = 4 -> 120 + leap [] m = 5 -> 151 + leap
          [] m = 6 -> 181 + leap [] m = 7 -> 212 + leap [] m = 8 -> 243 + leap
          [] m = 9 -> 273 + leap [] m = 10 -> 304 + leap [] m = 11 -> 334 + leap
          [] m = 12 -> 365 + leap

\* MakeDay(year, month, date): months beyond 0..11 carry into the year, dates
\* beyond the month carry into the following days.
MakeDay(year, month, date) ==
    LET ym == year + (month \div 12)
        mn == month % 12
    IN  DayFromYear(ym) + MonthStart(ym, mn) + date - 1

MakeTime(hour, min, sec, ms) ==
    hour * msPerHour + min * msPerMinute + sec * msPerSecond + ms

YearFromTime(t) ==
    CHOOSE y \in (1970 + (t.day \div 366) - 1) .. (1970 + (t.day \div 365) + 1) :
        DayFromYear(y) <= t.day /\ t.day < DayFromYear(y + 1)

MonthFromTime(t) ==
    LET y == YearFromTime(t)
        d == t.day - DayFromYear(y)
    IN  CHOOSE m \in 0 .. 11 : MonthStart(y, m) <= d /\ d < MonthStart(y, m + 1)

DateFromTime(t) ==
    LET y == YearFromTime(t)
    IN  t.day - DayFromYear(y) - MonthStart(y, MonthFromTime(t)) + 1

\* The local time zone: US Eastern time in 2023, UTC-5, with daylight saving
\* time (UTC-4) from 12 March 02:00 until 5 November 02:00 local time.
StandardOffset == 0 - 5 * msPerHour

DaylightOffset == 0 - 4 * msPerHour

DstStartUtc == TimeValue(MakeDay(2023, 2, 12), 7 * msPerHour)

DstEndUtc == TimeValue(MakeDay(2023, 10, 5), 6 * msPerHour)

\* LocalTZA(t, isUTC): a local time that is skipped or repeated at a
\* transition is read with the offset in force before the transition.
LocalTZA(t, isUTC) ==
    IF isUTC
    THEN IF TimeLeq(DstStartUtc, t) /\ TimeLess(t, DstEndUtc)
         THEN DaylightOffset ELSE StandardOffset
    ELSE IF TimeLeq(TimeValue(MakeDay(2023, 2, 12), 3 * msPerHour), t)
              /\ TimeLess(t, TimeValue(MakeDay(2023, 10, 5), 2 * msPerHour))
         THEN DaylightOffset ELSE StandardOffset

LocalTime(t) == AddMs(t, LocalTZA(t, TRUE))

UTC(t) == AddMs(t, 0 - LocalTZA(t, FALSE))

getFullYear(date) == YearFromTime(LocalTime(date))

getMonth(date) == MonthFromTime(LocalTime(date))

getDate(date) == DateFromTime(LocalTime(date))

getHours(date) == LocalTime(date).ms \div msPerHour

getMinutes(date) == (LocalTime(date).ms \div msPerMinute) % 60

getSeconds(date) == (LocalTime(date).ms \div msPerSecond) % 60

getMilliseconds(date) == LocalTime(date).ms % msPerSecond

\* new Date(year, month, date, hours, minutes, seconds).getTime(): the fields
\* are local time; a year of 0..99 means 1900 + year.
NewDate(year, month, date, hours, minutes, seconds) ==
    LET yr == IF 0 <= year /\ year <= 99 THEN 1900 + year ELSE year
    IN  UTC(TimeValue(MakeDay(yr, month, date),
                      MakeTime(hours, minutes, seconds, 0)))

\* ------------------------------------------------------------ formatting

RECURSIVE Zeros(_)
Zeros(k) == IF k <= 0 THEN <<>> ELSE <<"0">> \o Zeros(k - 1)

\* pad(n, l): '' + n, with '0' pushed for each missing place, reversed, joined.
pad(n, l) == Zeros(l - Len(NumberToString(n))) \o NumberToString(n)

\* (ms / 1000).toFixed(3) for 0 <= ms <= 999.
toFixed3(ms) == <<"0", ".">> \o Zeros(3 - Len(NumberToString(ms))) \o NumberToString(ms)

toLocalISOString(date) ==
    NumberToString(getFullYear(date))
        \o <<"-">> \o pad(getMonth(date) + 1, 2)
        \o <<"-">> \o pad(getDate(date), 2)
        \o <<"T">> \o pad(getHours(date), 2)
        \o <<":">> \o pad(getMinutes(date), 2)
        \o <<":">> \o pad(getSeconds(date), 2)
        \o <<".">> \o substring(toFixed3(getMilliseconds(date)), 2, 5)
        \o <<"Z">>

\* s matches \d+Z$ from its first character to its end.
DigitsThenZ(s) ==
    /\ Len(s) >= 2
    /\ s[Len(s)] = "Z"
    /\ \A i \in 1 .. Len(s) - 1 : s[i] \in DigitChars

\* s.replace(/-|:|\.\d+Z$/g, '')
RECURSIVE StripSeparators(_)
StripSeparators(s) ==
    IF s = <<>> THEN <<>>
    ELSE IF s[1] \in {"-", ":"} THEN StripSeparators(Tail(s))
    ELSE IF s[1] = "." /\ DigitsThenZ(Tail(s)) THEN <<>>
    ELSE <<s[1]>> \o StripSeparators(Tail(s))

JsonSuffix == <<".", "j", "s", "o", "n">>

\* `${toLocalISOString(new Date()).replace(/-|:|\.\d+Z$/g, '')}.json`
SnapshotFileName(date) == StripSeparators(toLocalISOString(date)) \o JsonSuffix

\* The listing pattern without its optional suffix: /^\d{8}T\d{6}$/.
MatchesSnapshotNameNoSuffix(name) ==
    /\ Len(name) = 15
    /\ \A i \in 1 .. 8 : name[i] \in DigitChars
    /\ name[9] = "T"
    /\ \A i \in 10 .. 15 : name[i] \in DigitChars

\* /^\d{8}T\d{6}(\.json)?$/.test(name)
MatchesSnapshotName(name) ==
    /\ Len(name) \in {15, 20}
    /\ \A i \in 1 .. 8 : name[i] \in DigitChars
    /\ name[9] = "T"
    /\ \A i \in 10 .. 15 : name[i] \in DigitChars
    /\ Len(name) = 20 => SubSeq(name, 16, 20) = JsonSuffix

\* getCreationTime reading the day digits as the month and the month digits
\* as the day.
getCreationTimeDayFirst(name) ==
    NewDate(parseInt(substring(name, 0, 4)),
            parseInt(substring(name, 6, 8)) - 1,
            parseInt(substring(name, 4, 6)),
            parseInt(substring(name, 9, 11)),
            parseInt(substring(name, 11, 13)),
            parseInt(substring(name, 13, 15)))

getCreationTime(name) ==
    NewDate(parseInt(substring(name, 0, 4)),
            parseInt(substring(name, 4, 6)) - 1,
            parseInt(substring(name, 6, 8)),
            parseInt(substring(name, 9, 11)),
            parseInt(substring(name, 11, 13)),
            parseInt(substring(name, 13, 15)))

\* Array.prototype.sort() of a set of distinct strings: ascending by code units.
RECURSIVE SortStrings(_)
SortStrings(S) ==
    IF S = {} THEN <<>>
    ELSE LET least == CHOOSE a \in S : \A b \in S \ {a} : StringLess(a, b)
         IN  <<least>> \o SortStrings(S \ {least})

\* reverse() left out: the sorted order, oldest first.
reverseForgotten(s) == s

reverse(s) == [i \in 1 .. Len(s) |-> s[Len(s) + 1 - i]]

\* ------------------------------------------------------------- the store

Resources == {"settings", "keybindings"}

Return(v) == [threw |-> FALSE, value |-> v]

Throw(e) == [threw |-> TRUE, value |-> e]

\* The names readdir gives for a resource's subfolder.
Children(fs, resource) == DOMAIN fs[resource].files

\* getAllEntries(resource) at the instant of its readdir; io tells whether the
\* read of the directory succeeds.
getAllEntries(fs, resource, io) ==
    IF io = "ok" /\ fs[resource].exists
    THEN LET all == reverse(SortStrings(
                        {name \in Children(fs, resource) : MatchesSnapshotName(name)}))
         IN  Return([i \in 1 .. Len(all) |->
                        [name |-> all[i],
                         created |-> getCreationTime(all[i]),
                         resource |-> resource]])
    ELSE Return(<<>>)

\* resolveContent without its catch: the read error reaches the caller.
resolveContentUncaught(fs, resource, name, io) ==
    IF io = "ok" /\ fs[resource].exists /\ name \in DOMAIN fs[resource].files
    THEN Return(fs[resource].files[name])
    ELSE Throw("ENOENT")

\* resolveContent(resource, name) at the instant of its readFile.
resolveContent(fs, resource, name, io) ==
    IF io = "ok" /\ fs[resource].exists /\ name \in DOMAIN fs[resource].files
    THEN Return(fs[resource].files[name])
    ELSE Return(<<>>)

\* ---------------------------------------------------------- the program

MaxTick == 1

MaxCalls == 2

\* How many backup calls a run holds.
MaxBackups == 2

Calls == 1 .. MaxCalls

\* The clock advances in half seconds.
TickMs == msPerSecond \div 2

\* The wall clock at tick 0: half a second before daylight saving time ends
\* (01:59:59.500 local time on 5 November 2023); at tick 1 it shows 01:00:00.
BaseTime == AddMs(DstEndUtc, 0 - TickMs)

\* What the live configuration files may hold.
Contents == {<<"A">>, <<"B">>}

\* A snapshot of the older naming convention, without the .json suffix.
LegacyName ==
    <<"2", "0", "2", "3", "1", "1", "0", "4", "T", "1", "2", "0", "0", "0", "0">>

\* A name no snapshot has.
AbsentName ==
    <<"2", "0", "2", "3", "0", "1", "0", "1", "T", "0", "0", "0", "0", "0", "0">>

NoFolder == [exists |-> FALSE, files |-> <<>>]

NoLiveFile == [exists |-> FALSE, content |-> <<>>]

NoEvent == [resource |-> "none", call |-> 0]

NoRet == [op |-> "none"]

\* liveAtName remembers, until the read, what the live file held when the
\* name was computed.
IdleCall == [pc |-> "idle", resource |-> "none", name |-> <<>>, content |-> <<>>,
             fired |-> 0, liveAtName |-> <<>>]

VARIABLES
    tick,       \* half seconds since BaseTime: the wall clock
    live,       \* live[r]: <userDataPath>/<r>.json, its existence and content
    folder,     \* folder[r]: <userDataBackupFolder>/<r>, its existence and files
    calls,      \* calls[c]: a backup call in flight, at its pending await
    lastEvent,  \* the change event fired by the latest step, if any
    started,    \* how many backup calls were made
    ret         \* what the latest read operation returned, if any

vars == <<tick, live, folder, calls, lastEvent, started, ret>>

\* new Date() at tick t, and the snapshot name computed from it.
TimeAt(t) == AddMs(BaseTime, t * TickMs)

SnapshotNameAt == [t \in 0 .. MaxTick |-> SnapshotFileName(TimeAt(t))]

Init ==
    /\ tick = 0
    /\ live = [r \in Resources |-> [exists |-> TRUE, content |-> <<"A">>]]
    /\ folder = [r \in Resources |->
                    IF r = "settings"
                    THEN [exists |-> TRUE, files |-> (LegacyName :> <<"A">>)]
                    ELSE NoFolder]
    /\ started = 0
    /\ calls = [c \in Calls |-> IdleCall]
    /\ lastEvent = NoEvent
    /\ ret = NoRet

\* The wall clock advances.
Tick ==
    /\ tick < MaxTick
    /\ tick' = tick + 1
    /\ lastEvent' = NoEvent
    /\ ret' = NoRet
    /\ UNCHANGED <<live, folder, calls, started>>

\* The user (or the editor) changes a live configuration file.
ModifyLive(r, v) ==
    /\ live[r] # [exists |-> TRUE, content |-> v]
    /\ live' = [live EXCEPT ![r] = [exists |-> TRUE, content |-> v]]
    /\ lastEvent' = NoEvent
    /\ ret' = NoRet
    /\ UNCHANGED <<tick, folder, calls, started>>

\* backup(resource) is called: the paths are computed and fs.exists is issued.
\* The call takes the first free slot.
BackupCall(c, r) ==
    /\ calls[c].pc = "idle"
    /\ \A d \in Calls : d < c => calls[d].pc # "idle"
    /\ started < MaxBackups
    /\ started' = started + 1
    /\ calls' = [calls EXCEPT ![c] = [IdleCall EXCEPT !.pc = "exists", !.resource = r]]
    /\ lastEvent' = NoEvent
    /\ ret' = NoRet
    /\ UNCHANGED <<tick, live, folder>>

\* The continuation once the folder is known to exist: the name is computed
\* from the clock and readFile of the live file is issued.
NamedCall(call) ==
    [call EXCEPT !.pc = "read", !.name = SnapshotNameAt[tick],
                 !.liveAtName = live[call.resource].content]

\* await fs.exists: it never rejects, an error reads as "does not exist".
BackupExists(c, io) ==
    /\ calls[c].pc = "exists"
    /\ calls' = [calls EXCEPT ![c] =
                    IF io = "ok" /\ folder[calls[c].resource].exists
                    THEN NamedCall(calls[c])
                    ELSE [calls[c] EXCEPT !.pc = "mkdir"]]
    /\ lastEvent' = NoEvent
    /\ ret' = NoRet
    /\ UNCHANGED <<tick, live, folder, started>>

\* mkdir without {recursive: true}: EEXIST when the folder exists.
BackupMkdirNotRecursive(c, io) ==
    /\ calls[c].pc = "mkdir"
    /\ IF io = "ok" /\ ~folder[calls[c].resource].exists
       THEN /\ folder' = [folder EXCEPT ![calls[c].resource].exists = TRUE]
            /\ calls' = [calls EXCEPT ![c] = NamedCall(calls[c])]
       ELSE /\ folder' = folder
            /\ calls' = [calls EXCEPT ![c].pc = "failed"]
    /\ lastEvent' = NoEvent
    /\ ret' = NoRet
    /\ UNCHANGED <<tick, live, started>>

\* await fs.mkdir(..., {recursive: true}): no error when the folder exists.
BackupMkdir(c, io) ==
    /\ calls[c].pc = "mkdir"
    /\ IF io = "ok"
       THEN /\ folder' = [folder EXCEPT ![calls[c].resource].exists = TRUE]
            /\ calls' = [calls EXCEPT ![c] = NamedCall(calls[c])]
       ELSE /\ folder' = folder
            /\ calls' = [calls EXCEPT ![c].pc = "failed"]
    /\ lastEvent' = NoEvent
    /\ ret' = NoRet
    /\ UNCHANGED <<tick, live, started>>

\* await fs.readFile(userDataFilePath)
BackupRead(c, io) ==
    /\ calls[c].pc = "read"
    /\ calls' = [calls EXCEPT ![c] =
                    IF io = "ok" /\ live[calls[c].resource].exists
                    THEN [calls[c] EXCEPT !.pc = "write",
                                          !.content = live[calls[c].resource].content,
                                          !.liveAtName = <<>>]
                    ELSE [calls[c] EXCEPT !.pc = "failed", !.liveAtName = <<>>]]
    /\ lastEvent' = NoEvent
    /\ ret' = NoRet
    /\ UNCHANGED <<tick, live, folder, started>>

\* What fs.writeFile leaves when it fails after opening the file: the file
\* exists, truncated, holding a proper prefix of the data.
Truncated(content) == SubSeq(content, 1, Len(content) - 1)

\* A write that replaces the folder's content by the new snapshot.
WriteFileKeepsLatestOnly(dir, name, content, io) ==
    IF ~dir.exists \/ io = "err" THEN dir
    ELSE IF io = "partial"
         THEN [dir EXCEPT !.files = (name :> Truncated(content))]
         ELSE [dir EXCEPT !.files = (name :> content)]

\* The folder after fs.writeFile(path, content) with outcome io.
WriteFile(dir, name, content, io) ==
    IF ~dir.exists \/ io = "err" THEN dir
    ELSE IF io = "partial"
         THEN [dir EXCEPT !.files = (name :> Truncated(content)) @@ dir.files]
         ELSE [dir EXCEPT !.files = (name :> content) @@ dir.files]

\* A backup that fires the change event whether or not the write succeeded.
WrittenFiresAlways(dir, call, io) ==
    IF dir.exists /\ io = "ok"
    THEN [call EXCEPT !.pc = "done", !.fired = call.fired + 1]
    ELSE [call EXCEPT !.pc = "failed", !.fired = call.fired + 1]

\* The call after its writeFile settled: fulfilled, it fires the change event
\* and returns; rejected, the error propagates.
Written(dir, call, io) ==
    IF dir.exists /\ io = "ok"
    THEN [call EXCEPT !.pc = "done", !.fired = call.fired + 1]
    ELSE [call EXCEPT !.pc = "failed"]

\* The event _onDidChange.fire(resource) hands its listeners.
Fired(c, call) ==
    IF call.fired > 0 THEN [resource |-> call.resource, call |-> c] ELSE NoEvent

\* await fs.writeFile(userDataBackupFilePath, content), then fire(resource).
BackupWrite(c, io) ==
    /\ calls[c].pc = "write"
    /\ LET r == calls[c].resource
       IN  /\ folder' = [folder EXCEPT ![r] =
                            WriteFile(folder[r], calls[c].name, calls[c].content, io)]
           /\ calls' = [calls EXCEPT ![c] = Written(folder[r], calls[c], io)]
           /\ lastEvent' = Fired(c, Written(folder[r], calls[c], io))
    /\ ret' = NoRet
    /\ UNCHANGED <<tick, live, started>>

\* The caller sees the promise of backup() settle.
BackupReturn(c) ==
    /\ calls[c].pc \in {"done", "failed"}
    /\ calls' = [calls EXCEPT ![c] = IdleCall]
    /\ lastEvent' = NoEvent
    /\ ret' = NoRet
    /\ UNCHANGED <<tick, live, folder, started>>

\* The names a caller may ask for: those the folder holds and one it does not.
KnownNames(r) == DOMAIN folder[r].files \cup {AbsentName}

GetAllEntries(r, io) ==
    /\ ret' = [op |-> "getAllEntries", resource |-> r, io |-> io,
               result |-> getAllEntries(folder, r, io)]
    /\ lastEvent' = NoEvent
    /\ UNCHANGED <<tick, live, folder, calls, started>>

ResolveContent(r, name, io) ==
    /\ ret' = [op |-> "resolveContent", resource |-> r, name |-> name, io |-> io,
               result |-> resolveContent(folder, r, name, io)]
    /\ lastEvent' = NoEvent
    /\ UNCHANGED <<tick, live, folder, calls, started>>

Environment ==
    \/ Tick
    \/ \E v \in Contents : ModifyLive("settings", v)

Backup(c) ==
    \/ \E r \in Resources : BackupCall(c, r)
    \/ \E io \in {"ok", "err"} : BackupExists(c, io)
    \/ \E io \in {"ok", "err"} : BackupMkdir(c, io)
    \/ \E io \in {"ok", "err"} : BackupRead(c, io)
    \/ \E io \in {"ok", "err", "partial"} : BackupWrite(c, io)
    \/ BackupReturn(c)

Reads ==
    \/ \E r \in Resources, io \in {"ok", "err"} : GetAllEntries(r, io)
    \/ \E r \in Resources, io \in {"ok", "err"} :
          \E name \in KnownNames(r) : ResolveContent(r, name, io)

\* The store under overlapping backup calls.
Next ==
    \/ Environment
    \/ \E c \in Calls : Backup(c)

Spec == Init /\ [][Next]_vars

\* The store under one caller that awaits each backup, and its readers.
NextSeq ==
    \/ Environment
    \/ Backup(1)
    \/ Reads

SpecSeq == Init /\ [][NextSeq]_vars

\* Overlapping backup calls whose I/O meets no error of the file system: what
\* fails here fails because of another call.
NextRace ==
    \/ Environment
    \/ \E c \in Calls :
          \/ \E r \in Resources : BackupCall(c, r)
          \/ BackupExists(c, "ok")
          \/ BackupMkdir(c, "ok")
          \/ BackupRead(c, "ok")
          \/ BackupWrite(c, "ok")
          \/ BackupReturn(c)

SpecRace == Init /\ [][NextRace]_vars

\* replace(item) up to its first await: the name and the resource are taken
\* from the item's backup uri and resolveContent is awaited.
ReplaceResolve(r, name, io) ==
    /\ ~(ret.op = "replace" /\ ret.pc = "write")
    /\ ret' = [op |-> "replace", pc |-> "write", resource |-> r, name |-> name,
               io |-> io, content |-> resolveContent(folder, r, name, io).value]
    /\ lastEvent' = NoEvent
    /\ UNCHANGED <<tick, live, folder, calls, started>>

\* The live file after fs.writeFile(item.source path, content) with outcome io.
WriteLive(file, content, io) ==
    IF io = "err" THEN file
    ELSE IF io = "partial" THEN [exists |-> TRUE, content |-> Truncated(content)]
    ELSE [exists |-> TRUE, content |-> content]

\* replace(item) after resolveContent settled: await fs.writeFile of the live
\* file with what resolveContent returned.
ReplaceWrite(io) ==
    /\ ret.op = "replace"
    /\ ret.pc = "write"
    /\ live' = [live EXCEPT ![ret.resource] = WriteLive(live[ret.resource], ret.content, io)]
    /\ ret' = [ret EXCEPT !.pc = IF io = "ok" THEN "done" ELSE "failed"]
    /\ lastEvent' = NoEvent
    /\ UNCHANGED <<tick, folder, calls, started>>

\* The store under one caller of backup and the replace command; the two
\* steps of a replace are taken with nothing between them.
NextReplace ==
    \/ ~(ret.op = "replace" /\ ret.pc = "write") /\ (Environment \/ Backup(1))
    \/ \E r \in Resources, io \in {"ok", "err"} :
          \E name \in KnownNames(r) : ReplaceResolve(r, name, io)
    \/ \E io \in {"ok", "err", "partial"} : ReplaceWrite(io)

SpecReplace == Init /\ [][NextReplace]_vars

\* --------------------------------------------- listing of arbitrary folders

\* How many files the listed folder holds.
MaxNames == 3

\* The 15 characters that name the instant y-mo-d h:mi:s.
Stamp(y, mo, d, h, mi, s) ==
    pad(y, 4) \o pad(mo, 2) \o pad(d, 2) \o <<"T">>
        \o pad(h, 2) \o pad(mi, 2) \o pad(s, 2)

\* File names a folder may hold: snapshots of both naming conventions, names
\* whose digits are no calendar date or lie in the hour skipped when daylight
\* saving time starts, years below 100, and names the pattern rejects.
NamePool ==
    {Stamp(2023, 1, 15, 0, 0, 0),
     Stamp(2023, 1, 40, 0, 0, 0),
     Stamp(2023, 2, 1, 0, 0, 0) \o JsonSuffix,
     Stamp(2023, 6, 15, 14, 30, 22),
     Stamp(2023, 6, 15, 14, 30, 22) \o JsonSuffix,
     Stamp(50, 1, 1, 0, 0, 0),
     Stamp(100, 1, 1, 0, 0, 0),
     Stamp(2023, 3, 12, 2, 30, 0) \o JsonSuffix,
     Stamp(2023, 3, 12, 3, 0, 0) \o JsonSuffix,
     SubSeq(Stamp(2023, 6, 15, 14, 30, 22), 1, 14),
     Stamp(2023, 6, 15, 14, 30, 22) \o <<".", "j", "s", "o">>,
     <<"x">> \o Stamp(2023, 6, 15, 14, 30, 22),
     Stamp(2023, 6, 15, 14, 30, 22) \o JsonSuffix \o <<"x">>,
     <<"2", "0", "2", "3", "0", "6", "1", "5", "x", "1", "4", "3", "0", "2", "2">>}

\* The settings folder holds any MaxNames of these names or fewer.
InitNames ==
    /\ tick = 0
    /\ live = [r \in Resources |-> NoLiveFile]
    /\ \E S \in SUBSET NamePool :
          /\ Cardinality(S) <= MaxNames
          /\ folder = [r \in Resources |->
                          IF r = "settings"
                          THEN [exists |-> TRUE, files |-> [n \in S |-> <<"A">>]]
                          ELSE NoFolder]
    /\ calls = [c \in Calls |-> IdleCall]
    /\ lastEvent = NoEvent
    /\ started = 0
    /\ ret = NoRet

NextNames == \E r \in Resources, io \in {"ok", "err"} : GetAllEntries(r, io)

SpecNames == InitNames /\ [][NextNames]_vars

\* ------------------------------------------------------ timeline paging

PageSize == 10

MaxEntries == 25

MaxCursor == 30

\* Array.prototype.slice(start, end) for 0 <= start <= end.
slice(a, start, end) ==
    LET from == IF start < Len(a) THEN start ELSE Len(a)
        to == IF end < Len(a) THEN end ELSE Len(a)
    IN  SubSeq(a, from + 1, to)

NoCursor == [present |-> FALSE, text |-> <<>>]

Cursor(text) == [present |-> TRUE, text |-> text]

\* options.cursor ? ... : a cursor is truthy when it is a non-empty string.
Truthy(cursor) == cursor.present /\ cursor.text # <<>>

\* filterEntries of the paging providers.
filterEntries(entries, options) ==
    IF Truthy(options.cursor)
    THEN LET start == parseInt(options.cursor.text)
         IN  slice(entries, start, start + PageSize)
    ELSE slice(entries, 0, PageSize)

\* filterEntries of src/extension.ts: every entry.
filterEntriesAll(entries, options) == entries

\* toTimelineItem: the label is the name without its last five characters.
toTimelineItem(entry) ==
    [label |-> substring(entry.name, 0, Len(entry.name) - 5),
     timestamp |-> entry.created,
     backup |-> <<entry.resource, entry.name>>]

\* toTimelineItem of src/extension.ts: the label is the name.
toTimelineItemNamed(entry) ==
    [label |-> entry.name,
     timestamp |-> entry.created,
     backup |-> <<entry.resource, entry.name>>]

\* paging.cursor: allEntries.length > cursor ? `${cursor}` : undefined
NextCursor(length, cursor) ==
    IF length > cursor THEN Cursor(NumberToString(cursor)) ELSE NoCursor

\* provideTimeline of the paging providers, from the list getAllEntries gave.
provideTimeline(allEntries, options) ==
    LET filteredEntries == filterEntries(allEntries, options)
        items == [i \in DOMAIN filteredEntries |-> toTimelineItem(filteredEntries[i])]
        cursor == IF Truthy(options.cursor)
                  THEN parseInt(options.cursor.text) + PageSize
                  ELSE PageSize
    IN  [items |-> items, paging |-> [cursor |-> NextCursor(Len(allEntries), cursor)]]

\* provideTimeline of src/extension.ts: { items }, no paging.
provideTimelineAll(allEntries, options) ==
    LET filteredEntries == filterEntriesAll(allEntries, options)
        items == [i \in DOMAIN filteredEntries |-> toTimelineItemNamed(filteredEntries[i])]
    IN  [items |-> items, paging |-> [cursor |-> NoCursor]]

\* The three timeline providers of the repository.
PagingProviders ==
    {"UserDataBackupTimelineProvider", "UserDataFileChangesTimelineProvider"}

Providers == PagingProviders \cup {"extension.ts"}

\* The instant of the oldest listed snapshot: 15 June 2023 14:30:22 local time.
FirstSnapshotTime == NewDate(2023, 5, 15, 14, 30, 22)

\* The entry of the snapshot of settings taken k seconds after the first.
EntryAfter(k) ==
    LET name == SnapshotFileName(AddMs(FirstSnapshotTime, k * msPerSecond))
    IN  [name |-> name, created |-> getCreationTime(name), resource |-> "settings"]

SnapshotEntries == [k \in 0 .. MaxEntries |-> EntryAfter(k)]

\* The newest-first list getAllEntries returns for n snapshots of settings
\* taken one second apart.
EntryList(n) == [i \in 1 .. n |-> SnapshotEntries[n - i]]

\* The cursors a caller passes: none, or a decimal offset as text.
CursorOptions == {NoCursor} \cup {Cursor(NumberToString(k)) : k \in 0 .. MaxCursor}

\* A provider is asked for the timeline of settings: n snapshots exist.
InitPaging ==
    /\ tick = 0
    /\ live = [r \in Resources |-> NoLiveFile]
    /\ folder = [r \in Resources |-> NoFolder]
    /\ calls = [c \in Calls |-> IdleCall]
    /\ lastEvent = NoEvent
    /\ started = 0
    /\ \E provider \in Providers, n \in 0 .. MaxEntries, cursor \in CursorOptions :
          ret = [op |-> "provideTimeline called", provider |-> provider,
                 entries |-> EntryList(n), cursor |-> cursor]

ProvideTimeline ==
    /\ ret.op = "provideTimeline called"
    /\ ret' = [op |-> "provideTimeline", provider |-> ret.provider,
               entries |-> ret.entries, cursor |-> ret.cursor,
               result |-> IF ret.provider \in PagingProviders
                          THEN provideTimeline(ret.entries, [cursor |-> ret.cursor])
                          ELSE provideTimelineAll(ret.entries, [cursor |-> ret.cursor])]
    /\ lastEvent' = NoEvent
    /\ UNCHANGED <<tick, live, folder, calls, started>>

NextPaging == ProvideTimeline

SpecPaging == InitPaging /\ [][NextPaging]_vars

\* ------------------------------------------------------ the sync resolver
\* JavaScript values, as far as JSON.parse of the documents below yields them.

JUndefined == [type |-> "undefined"]

JNull == [type |-> "null"]

JString(chars) == [type |-> "string", chars |-> chars]

JNumber(n) == [type |-> "number", num |-> n]

JObject(members) == [type |-> "object", members |-> members]

ParseFailure == [ok |-> FALSE, value |-> JUndefined, rest |-> <<>>]

Parsed(v, rest) == [ok |-> TRUE, value |-> v, rest |-> rest]

\* A JSON string after its opening quote, with the escapes \" \\ \/ \n \t;
\* acc holds the characters read so far.
RECURSIVE ParseString(_, _)
ParseString(s, acc) ==
    IF s = <<>> THEN ParseFailure
    ELSE IF s[1] = "\"" THEN Parsed(JString(acc), Tail(s))
    ELSE IF s[1] = "\\"
         THEN IF Len(s) < 2 THEN ParseFailure
              ELSE IF s[2] \in {"\"", "\\", "/"}
                   THEN ParseString(SubSeq(s, 3, Len(s)), acc \o <<s[2]>>)
              ELSE IF s[2] = "n" THEN ParseString(SubSeq(s, 3, Len(s)), acc \o <<"\n">>)
              ELSE IF s[2] = "t" THEN ParseString(SubSeq(s, 3, Len(s)), acc \o <<"\t">>)
              ELSE ParseFailure
    ELSE ParseString(Tail(s), acc \o <<s[1]>>)

\* A JSON value at the head of s: a string, an object, an integer or null.
\* The documents hold no white space.
RECURSIVE ParseValue(_)
RECURSIVE ParseMembers(_, _)
ParseValue(s) ==
    IF s = <<>> THEN ParseFailure
    ELSE IF s[1] = "\"" THEN ParseString(Tail(s), <<>>)
    ELSE IF s[1] = "{"
         THEN IF Len(s) >= 2 /\ s[2] = "}"
              THEN Parsed(JObject(<<>>), SubSeq(s, 3, Len(s)))
              ELSE ParseMembers(Tail(s), <<>>)
    ELSE IF s[1] = "0" THEN Parsed(JNumber(0), Tail(s))
    ELSE IF s[1] \in DigitChars
         THEN Parsed(JNumber(DigitsValue(DigitPrefix(s))),
                     SubSeq(s, Len(DigitPrefix(s)) + 1, Len(s)))
    ELSE IF Len(s) >= 4 /\ SubSeq(s, 1, 4) = <<"n", "u", "l", "l">>
         THEN Parsed(JNull, SubSeq(s, 5, Len(s)))
    ELSE ParseFailure

\* The members of an object after its { or a comma; a repeated key keeps
\* its last value.
ParseMembers(s, members) ==
    IF s = <<>> \/ s[1] # "\"" THEN ParseFailure
    ELSE LET key == ParseString(Tail(s), <<>>)
         IN  IF ~key.ok \/ key.rest = <<>> \/ key.rest[1] # ":" THEN ParseFailure
             ELSE LET val == ParseValue(Tail(key.rest))
                      all == (key.value.chars :> val.value) @@ members
                  IN  IF ~val.ok \/ val.rest = <<>> THEN ParseFailure
                      ELSE IF val.rest[1] = "}" THEN Parsed(JObject(all), Tail(val.rest))
                      ELSE IF val.rest[1] = "," THEN ParseMembers(Tail(val.rest), all)
                      ELSE ParseFailure

\* JSON.parse(text): the value the whole text spells, or a SyntaxError.
JSONparse(text) ==
    LET r == ParseValue(text)
    IN  IF r.ok /\ r.rest = <<>> THEN Return(r.value) ELSE Throw("SyntaxError")

\* The string JSON.parse makes of its argument before parsing it.
ToJsString(v) ==
    CASE v.type = "string" -> v.chars
      [] v.type = "number" -> NumberToString(v.num)
      [] v.type = "null" -> <<"n", "u", "l", "l">>
      [] v.type = "undefined" -> <<"u", "n", "d", "e", "f", "i", "n", "e", "d">>
      [] v.type = "object" ->
            <<"[", "o", "b", "j", "e", "c", "t", " ", "O", "b", "j", "e", "c", "t", "]">>

\* const { key } = v
Destructure(v, key) ==
    IF v.type \in {"null", "undefined"} THEN Throw("TypeError")
    ELSE IF v.type = "object" /\ key \in DOMAIN v.members THEN Return(v.members[key])
    ELSE Return(JUndefined)

ContentKey == <<"c", "o", "n", "t", "e", "n", "t">>

SettingsKey == <<"s", "e", "t", "t", "i", "n", "g", "s">>

\* UserDataSyncBackupResolver.resolveContent: the base read, then the two
\* unwrappings; nothing is caught.
syncResolveContent(fs, resource, name, io) ==
    LET resolvedContent == resolveContent(fs, resource, name, io)
        outer == JSONparse(resolvedContent.value)
        content == Destructure(outer.value, ContentKey)
        inner == JSONparse(ToJsString(content.value))
        settings == Destructure(inner.value, SettingsKey)
    IN  IF resolvedContent.threw THEN resolvedContent
        ELSE IF outer.threw THEN outer
        ELSE IF content.threw THEN content
        ELSE IF inner.threw THEN inner
        ELSE settings

\* The envelope of the settings text FOO.
\* {"content":"{\"settings\":\"FOO\"}"}
DocWrapped ==
    <<"{", "\"", "c", "o", "n", "t", "e", "n", "t", "\"", ":", "\"", "{",
      "\\", "\"", "s", "e", "t", "t", "i", "n", "g", "s", "\\", "\"", ":",
      "\\", "\"", "F", "O", "O", "\\", "\"", "}", "\"", "}">>

\* The envelope of an empty settings text.
\* {"content":"{\"settings\":\"\"}"}
DocEmptySettings ==
    <<"{", "\"", "c", "o", "n", "t", "e", "n", "t", "\"", ":", "\"", "{",
      "\\", "\"", "s", "e", "t", "t", "i", "n", "g", "s", "\\", "\"", ":",
      "\\", "\"", "\\", "\"", "}", "\"", "}">>

\* An envelope whose content string is cut short: malformed at the inner layer.
\* {"content":"{\"settings\":"}
DocInnerMalformed ==
    <<"{", "\"", "c", "o", "n", "t", "e", "n", "t", "\"", ":", "\"", "{",
      "\\", "\"", "s", "e", "t", "t", "i", "n", "g", "s", "\\", "\"", ":",
      "\"", "}">>

\* A document cut short: malformed at the outer layer.
\* {"content":"{\"set
DocOuterMalformed ==
    <<"{", "\"", "c", "o", "n", "t", "e", "n", "t", "\"", ":", "\"", "{",
      "\\", "\"", "s", "e", "t">>

\* A JSON document without a content member.
\* {"other":"x"}
DocNoContent ==
    <<"{", "\"", "o", "t", "h", "e", "r", "\"", ":", "\"", "x", "\"", "}">>

\* An envelope whose content has no settings member.
\* {"content":"{\"other\":\"x\"}"}
DocNoSettings ==
    <<"{", "\"", "c", "o", "n", "t", "e", "n", "t", "\"", ":", "\"", "{",
      "\\", "\"", "o", "t", "h", "e", "r", "\\", "\"", ":", "\\", "\"", "x",
      "\\", "\"", "}", "\"", "}">>

\* The JSON document null.
\* null
DocNull ==
    <<"n", "u", "l", "l">>

\* An envelope whose content is a number.
\* {"content":5}
DocNumberContent ==
    <<"{", "\"", "c", "o", "n", "t", "e", "n", "t", "\"", ":", "5", "}">>

\* An envelope whose content is the JSON text null.
\* {"content":"null"}
DocInnerNull ==
    <<"{", "\"", "c", "o", "n", "t", "e", "n", "t", "\"", ":", "\"", "n",
      "u", "l", "l", "\"", "}">>

SyncDocuments ==
    {DocWrapped,
     DocEmptySettings,
     DocInnerMalformed,
     DocOuterMalformed,
     DocNoContent,
     DocNoSettings,
     DocNull,
     DocNumberContent,
     DocInnerNull, <<>>}

\* The name of the snapshot the sync folder may hold.
SyncName == Stamp(2023, 6, 15, 14, 30, 22) \o JsonSuffix

\* The folders of the sync root: missing, empty or holding one document, with
\* a call of resolveContent for that name.
SyncFolders ==
    {NoFolder, [exists |-> TRUE, files |-> <<>>]}
        \cup {[exists |-> TRUE, files |-> (SyncName :> d)] : d \in SyncDocuments}

InitSync ==
    /\ tick = 0
    /\ live = [r \in Resources |-> NoLiveFile]
    /\ folder \in [Resources -> SyncFolders]
    /\ calls = [c \in Calls |-> IdleCall]
    /\ lastEvent = NoEvent
    /\ started = 0
    /\ \E r \in Resources, io \in {"ok", "err"} :
          ret = [op |-> "syncResolveContent called", resource |-> r,
                 name |-> SyncName, io |-> io]

SyncResolveContent ==
    /\ ret.op = "syncResolveContent called"
    /\ ret' = [op |-> "syncResolveContent", resource |-> ret.resource,
               name |-> ret.name, io |-> ret.io,
               result |-> syncResolveContent(folder, ret.resource, ret.name, ret.io)]
    /\ lastEvent' = NoEvent
    /\ UNCHANGED <<tick, live, folder, calls, started>>

NextSync == SyncResolveContent

SpecSync == InitSync /\ [][NextSync]_vars

\* ------------------------------------------------------------ properties

\* What a reader that succeeds in listing the folder is given.
Listing(fs, r) == getAllEntries(fs, r, "ok").value

EntryNames(L) == {L[i].name : i \in DOMAIN L}

ListedNames(fs, r) == EntryNames(Listing(fs, r))

\* The step in which call c's writeFile is fulfilled and backup returns.
Succeeds(c) == calls[c].pc = "write" /\ calls'[c].pc = "done"

\* The step in which call c's backup is rejected.
Fails(c) == calls[c].pc # "failed" /\ calls'[c].pc = "failed"

\* C1: after a backup(resource) that succeeded, with no other backup in
\* flight, a getAllEntries(resource) that can read the folder returns a
\* non-empty list whose first entry has the name that backup wrote.
C1_LatestBackupListedFirst ==
    (/\ ret.op = "getAllEntries"
     /\ ret.io = "ok"
     /\ calls[1].pc = "done"
     /\ ret.resource = calls[1].resource)
    => /\ ret.result.value # <<>>
       /\ ret.result.value[1].name = calls[1].name

\* Every snapshot of resource r holds a complete copy of a live file.
Intact(r) == \A n \in DOMAIN folder[r].files : folder[r].files[n] \in Contents

\* C2 as claimed, for the backups that succeed over complete snapshots: no
\* such step removes a snapshot or changes what resolveContent returns for it.
C2_SnapshotsImmutable ==
    [][\A c \in Calls : \A r \in Resources :
          (Succeeds(c) /\ Intact(r)) =>
             \A n \in DOMAIN folder[r].files :
                /\ n \in DOMAIN folder'[r].files
                /\ resolveContent(folder', r, n, "ok") = resolveContent(folder, r, n, "ok")]_vars

\* C2 as amended: no step removes a snapshot, and the only step that changes
\* what resolveContent returns for a snapshot is the writeFile of a backup of
\* the same resource that computed the same name.
C2_NeverDeletedOverwrittenOnlyBySameName ==
    [][\A r \in Resources : \A n \in DOMAIN folder[r].files :
          /\ n \in DOMAIN folder'[r].files
          /\ resolveContent(folder', r, n, "ok") # resolveContent(folder, r, n, "ok")
             => \E c \in Calls :
                   /\ calls[c].pc = "write"
                   /\ calls'[c].pc \in {"done", "failed"}
                   /\ calls[c].resource = r
                   /\ calls[c].name = n]_vars

\* Two backups of one resource returned with the same name and different
\* contents next to the older snapshot: one write went over the other.
C2_Witness ==
    /\ calls[1].pc = "done"
    /\ calls[2].pc = "done"
    /\ calls[1].resource = "settings"
    /\ calls[2].resource = "settings"
    /\ calls[1].name = calls[2].name
    /\ calls[1].content # calls[2].content
    /\ ListedNames(folder, "settings") = {LegacyName, calls[1].name}

\* C3 as claimed, for the backups that succeed over complete snapshots: the
\* backup leaves the subfolder existing, lists exactly one snapshot more for
\* its resource and leaves the other resource's snapshots as they were.
C3_OneMoreSnapshot ==
    [][\A c \in Calls : (Succeeds(c) /\ Intact(calls[c].resource)) =>
          LET r == calls[c].resource
          IN  /\ folder'[r].exists
              /\ Len(Listing(folder', r)) = Len(Listing(folder, r)) + 1
              /\ \A o \in Resources \ {r} : folder'[o] = folder[o]]_vars

\* C3 as amended: the count grows by one unless a snapshot of the computed
\* name exists already, which the backup overwrites; the mkdir that succeeds
\* leaves the subfolder existing.
C3_OneMoreSnapshotUnlessSameName ==
    [][\A c \in Calls :
          LET r == calls[c].resource
              before == Listing(folder, r)
              after == Listing(folder', r)
          IN  /\ (calls[c].pc = "mkdir" /\ calls'[c].pc = "read") => folder'[r].exists
              /\ Succeeds(c) =>
                    /\ folder'[r].exists
                    /\ calls[c].name \in EntryNames(after)
                    /\ Len(after) =
                          Len(before)
                              + (IF calls[c].name \in EntryNames(before) THEN 0 ELSE 1)
                    /\ \A o \in Resources \ {r} : folder'[o] = folder[o]]_vars

\* A backup of keybindings, whose subfolder did not exist, returned: the
\* subfolder exists and lists that one snapshot.
C3_Witness ==
    \E c \in Calls :
        /\ calls[c].pc = "done"
        /\ calls[c].resource = "keybindings"
        /\ folder["keybindings"].exists
        /\ ListedNames(folder, "keybindings") = {calls[c].name}

\* C4: the change event is fired in the step in which the writeFile of a
\* backup is fulfilled, once, with that backup's resource, when the snapshot
\* is listed; no other step fires it, and a call that did not succeed has
\* fired nothing.
C4_FiredOncePerSuccessAfterWrite ==
    [][/\ \A c \in Calls : Succeeds(c) =>
             /\ lastEvent' = [resource |-> calls[c].resource, call |-> c]
             /\ calls'[c].fired = 1
             /\ calls[c].name \in ListedNames(folder', calls[c].resource)
       /\ lastEvent' # NoEvent => Succeeds(lastEvent'.call)
       /\ \A c \in Calls : calls'[c].pc # "done" => calls'[c].fired = 0]_vars

\* The event of a backup of keybindings was just fired.
C4_Witness ==
    /\ lastEvent # NoEvent
    /\ lastEvent.resource = "keybindings"
    /\ calls[lastEvent.call].pc = "done"
    /\ calls[lastEvent.call].name \in ListedNames(folder, "keybindings")

\* C9: getAllEntries and resolveContent of the primary store never throw;
\* getAllEntries returns [] when the subfolder does not exist or cannot be
\* read, resolveContent returns '' when the snapshot does not exist or cannot
\* be read.
C9_FailSoftReads ==
    /\ ret.op = "getAllEntries" =>
          /\ ~ret.result.threw
          /\ (~folder[ret.resource].exists \/ ret.io = "err") => ret.result.value = <<>>
    /\ ret.op = "resolveContent" =>
          /\ ~ret.result.threw
          /\ (\/ ~folder[ret.resource].exists
              \/ ret.name \notin DOMAIN folder[ret.resource].files
              \/ ret.io = "err") => ret.result.value = <<>>

\* resolveContent was asked for a name that an existing folder does not hold.
C9_Witness ==
    /\ ret.op = "resolveContent"
    /\ ret.io = "ok"
    /\ folder[ret.resource].exists
    /\ ret.name \notin DOMAIN folder[ret.resource].files
    /\ ret.result = Return(<<>>)

\* C10: the step in which a backup is rejected adds and alters no snapshot
\* file of any resource and fires no event.
C10_FailedBackupLeavesNoTrace ==
    [][\A c \in Calls : Fails(c) =>
          /\ \A r \in Resources : folder'[r].files = folder[r].files
          /\ lastEvent' = NoEvent
          /\ calls'[c].fired = 0]_vars

\* The names /^\d{8}T\d{6}(\.json)?$/ is to accept: eight digits, T and six
\* digits, alone or followed by .json.
IsStamp(s) ==
    /\ Len(s) = 15
    /\ s[9] = "T"
    /\ \A i \in (1 .. 15) \ {9} : s[i] \in DigitChars

IsSnapshotName(s) ==
    \/ IsStamp(s)
    \/ /\ Len(s) = 20
       /\ IsStamp(SubSeq(s, 1, 15))
       /\ SubSeq(s, 16, 20) = <<".", "j", "s", "o", "n">>

\* C7: a getAllEntries that can read the folder returns the folder's names
\* that are snapshot names, all of them, nothing else, in strictly descending
\* order of name (so each once), each with its resource.
C7_ListsExactlyMatchingNamesDescending ==
    (ret.op = "getAllEntries" /\ ret.io = "ok" /\ folder[ret.resource].exists) =>
        LET L == ret.result.value
        IN  /\ {L[i].name : i \in DOMAIN L} =
                  {n \in DOMAIN folder[ret.resource].files : IsSnapshotName(n)}
            /\ \A i, j \in DOMAIN L : i < j => StringLess(L[j].name, L[i].name)
            /\ \A i \in DOMAIN L : L[i].resource = ret.resource

\* A folder holding the suffixed and the unsuffixed name of one instant and a
\* name the pattern rejects was listed: two entries, the suffixed one first.
C7_Witness ==
    /\ ret.op = "getAllEntries"
    /\ ret.io = "ok"
    /\ DOMAIN folder[ret.resource].files =
          {Stamp(2023, 6, 15, 14, 30, 22),
           Stamp(2023, 6, 15, 14, 30, 22) \o JsonSuffix,
           Stamp(2023, 6, 15, 14, 30, 22) \o JsonSuffix \o <<"x">>}
    /\ Len(ret.result.value) = 2
    /\ ret.result.value[1].name = Stamp(2023, 6, 15, 14, 30, 22) \o JsonSuffix

\* C8 as claimed: in every list getAllEntries returns, an entry's creation
\* time is not earlier than that of any entry after it.
C8_NameOrderIsTimeOrder ==
    ret.op = "getAllEntries" =>
        LET L == ret.result.value
        IN  \A i, j \in DOMAIN L : i < j => TimeLeq(L[j].created, L[i].created)

DaysInMonth(y, m) == MonthStart(y, m) - MonthStart(y, m - 1)

\* The digits of the name are a calendar date and a time of day that the
\* local clock shows, of a year from 100 on.
IsLocalTimeStamp(name) ==
    LET y == DigitsValue(SubSeq(name, 1, 4))
        mo == DigitsValue(SubSeq(name, 5, 6))
        d == DigitsValue(SubSeq(name, 7, 8))
        h == DigitsValue(SubSeq(name, 10, 11))
        mi == DigitsValue(SubSeq(name, 12, 13))
        sec == DigitsValue(SubSeq(name, 14, 15))
    IN  /\ y >= 100
        /\ mo \in 1 .. 12
        /\ d \in 1 .. DaysInMonth(y, mo)
        /\ h \in 0 .. 23
        /\ mi \in 0 .. 59
        /\ sec \in 0 .. 59
        /\ ~(y = 2023 /\ mo = 3 /\ d = 12 /\ h = 2)

\* C8 as amended: the order holds among the listed names whose digits are a
\* calendar date and time of day that the local clock shows.
C8_NameOrderIsTimeOrderOfLocalTimes ==
    ret.op = "getAllEntries" =>
        LET L == ret.result.value
        IN  \A i, j \in DOMAIN L :
               (i < j /\ IsLocalTimeStamp(L[i].name) /\ IsLocalTimeStamp(L[j].name))
                  => TimeLeq(L[j].created, L[i].created)

\* Three snapshots of local times, of both conventions, were listed.
C8_Witness ==
    /\ ret.op = "getAllEntries"
    /\ Len(ret.result.value) = 3
    /\ \A i \in 1 .. 3 : IsLocalTimeStamp(ret.result.value[i].name)
    /\ TimeLess(ret.result.value[3].created, ret.result.value[1].created)
    /\ ret.result.value[1].created = ret.result.value[2].created

\* The offset a cursor stands for: 0 when absent.
Offset(cursor) == IF cursor.present THEN DigitsValue(cursor.text) ELSE 0

\* The result is the page of ten entries at the cursor's offset, in order,
\* with the cursor of the next page exactly when entries remain beyond it.
IsPageAt(result, L, c) ==
    LET last == IF c + 10 < Len(L) THEN c + 10 ELSE Len(L)
    IN  /\ Len(result.items) = (IF c < last THEN last - c ELSE 0)
        /\ \A i \in DOMAIN result.items :
              /\ result.items[i].backup = <<L[c + i].resource, L[c + i].name>>
              /\ result.items[i].timestamp = L[c + i].created
        /\ result.paging.cursor.present <=> Len(L) > c + 10
        /\ result.paging.cursor.present =>
              result.paging.cursor.text = NumberToString(c + 10)

\* C6: provideTimeline, of each of the three providers, returns the page of
\* ten entries at the cursor and the cursor of the next page exactly when
\* entries remain beyond it.
C6_ReturnsPageAtCursor ==
    ret.op = "provideTimeline" => IsPageAt(ret.result, ret.entries, Offset(ret.cursor))

\* What each provider does: the two providers of part_000 return the page at
\* the cursor; the provider of src/extension.ts returns every entry and no
\* cursor, whatever the cursor.
C6_PagingProvidersReturnPageAtCursor ==
    ret.op = "provideTimeline" =>
        IF ret.provider \in PagingProviders
        THEN IsPageAt(ret.result, ret.entries, Offset(ret.cursor))
        ELSE /\ Len(ret.result.items) = Len(ret.entries)
             /\ \A i \in DOMAIN ret.entries :
                   ret.result.items[i].backup =
                      <<ret.entries[i].resource, ret.entries[i].name>>
             /\ ~ret.result.paging.cursor.present

\* A paging provider was asked for 25 entries at cursor "20": five items, no
\* further cursor.
C6_Witness ==
    /\ ret.op = "provideTimeline"
    /\ ret.provider = "UserDataBackupTimelineProvider"
    /\ Len(ret.entries) = 25
    /\ ret.cursor = Cursor(<<"2", "0">>)
    /\ Len(ret.result.items) = 5
    /\ ret.result.items[1].backup[2] = ret.entries[21].name
    /\ ~ret.result.paging.cursor.present

\* The read of the sync resolver's call finds no snapshot it can read.
ReadMiss ==
    \/ ret.io = "err"
    \/ ~folder[ret.resource].exists
    \/ ret.name \notin DOMAIN folder[ret.resource].files

\* The stored document, or the content string it wraps, is not JSON.
ParseFails(stored) ==
    \/ JSONparse(stored).threw
    \/ LET content == Destructure(JSONparse(stored).value, ContentKey)
       IN  /\ ~content.threw
           /\ content.value.type = "string"
           /\ JSONparse(content.value.chars).threw

\* C5: the sync resolver's resolveContent does not throw on a read miss, and
\* throws, so returns no empty string, when the stored document or its
\* content string is not JSON.
C5_ReadMissSoftParseFailureHard ==
    ret.op = "syncResolveContent" =>
        /\ ReadMiss => ~ret.result.threw
        /\ (~ReadMiss /\ ParseFails(folder[ret.resource].files[ret.name]))
              => ret.result.threw

\* C11: the snapshot file that a backup's fulfilled writeFile leaves holds
\* what the live file of its resource held at the instant the snapshot's
\* name was computed from, whatever ran between the backup's steps: the read
\* gives what the live file held at that instant, and the write stores what
\* the read gave.
C11_SnapshotIsCopyOfLiveAtNameTime ==
    [][\A c \in Calls :
          /\ (calls[c].pc = "read" /\ calls'[c].pc = "write")
                => calls'[c].content = calls[c].liveAtName
          /\ Succeeds(c)
                => folder'[calls[c].resource].files[calls[c].name] = calls[c].content]_vars

\* C12: with no I/O error of the file system, no step makes a backup call
\* fail; the step after a call's mkdir finds the subfolder existing; a call
\* that succeeds leaves its snapshot in the existing subfolder and fires its
\* event; and when it succeeds next to a finished call of the same resource
\* with another name, both snapshots exist and each call has fired once.
C12_FolderCreationRaceBenign ==
    [][\A c \in Calls :
          LET r == calls[c].resource
          IN  /\ calls'[c].pc # "failed"
              /\ (calls[c].pc = "mkdir" /\ calls'[c].pc # "mkdir")
                    => (calls'[c].pc = "read" /\ folder'[r].exists)
              /\ Succeeds(c) =>
                    /\ folder'[r].exists
                    /\ calls[c].name \in DOMAIN folder'[r].files
                    /\ lastEvent' = [resource |-> r, call |-> c]
                    /\ \A d \in Calls \ {c} :
                          (/\ calls[d].pc = "done"
                           /\ calls[d].resource = r
                           /\ calls[d].name # calls[c].name)
                          => /\ calls[d].name \in DOMAIN folder'[r].files
                             /\ calls[d].fired = 1
                             /\ calls'[c].fired = 1]_vars

\* The second call of keybindings found no subfolder, created it and
\* finished, while the first, which found none either, has its mkdir pending.
C12_Witness ==
    /\ calls[1].resource = "keybindings"
    /\ calls[1].pc = "mkdir"
    /\ calls[2].resource = "keybindings"
    /\ calls[2].pc = "done"
    /\ folder["keybindings"].exists
    /\ calls[2].name \in DOMAIN folder["keybindings"].files

\* C13: the step in which the writeFile of a replace is fulfilled leaves the
\* live file as it was when resolveContent could not read the named snapshot,
\* and changes it only to the stored content of that snapshot.
C13_ReplaceWritesOnlySnapshotContent ==
    [][(/\ ret.op = "replace"
        /\ ret.pc = "write"
        /\ ret'.op = "replace"
        /\ ret'.pc = "done")
       => LET r == ret.resource
              unread == \/ ret.io = "err"
                        \/ ~folder[r].exists
                        \/ ret.name \notin DOMAIN folder[r].files
          IN  /\ unread => live' = live
              /\ live'[r] # live[r] =>
                    /\ ~unread
                    /\ live'[r].content = folder[r].files[ret.name]]_vars

====
